---- MODULE Spec2Model ----
(***************************************************************************)
(* createGitHubPR: the fork-branch-commit-PR workflow driven through a     *)
(* resumed sandbox.  One action per awaited call of the function; the      *)
(* sandbox (directory, remotes, working tree) persists between calls.      *)
(* Strings the code parses or builds are sequences of one-character        *)
(* strings; file contents are sequences of text blocks.                    *)
(***************************************************************************)
EXTENDS Integers, Sequences, FiniteSets, TLC

\* Number of successive calls of createGitHubPR on the same sandbox.
MaxCalls == 2

VARIABLES
    pc,                     \* position inside createGitHubPR ("idle" between calls)
    calls,                  \* calls started so far
    now,                    \* Date.now()
    accessToken,            \* process.env.GITHUB_PERSONAL_ACCESS_TOKEN
    repoUrl, fileChanges,   \* options
    owner, repoName,        \* parsed from repoUrl
    userInfoResult,         \* raw output of `gh api user --jq .login`
    authenticatedUsername,
    forked, forkUrl, workingRepoUrl,
    directoryExists,
    readmeResult,
    writeIdx,               \* index of the for-loop over fileChanges
    branchName,
    result,                 \* the CreatePRResult returned, once pc = "done"
    ops,                    \* sandbox operations issued by the current call, in order
    readmeWrites,           \* writes of README.md made by the default branch of the current call
    running,                \* sandbox: VM is running
    dirState,               \* sandbox: "absent", "empty", "plain" (non-git files) or "git"
    remotes,                \* sandbox: [origin, upstream], <<>> when not configured
    tree,                   \* sandbox: working tree of the repository directory, path -> content
    headTree,               \* sandbox: tree of the commit HEAD points at
    mainTree,               \* tree of branch main
    prUrl,
    lastCommit              \* files recorded by the last `git commit`, path -> content

callVars == <<accessToken, repoUrl, fileChanges, owner, repoName, userInfoResult,
              authenticatedUsername, forked, forkUrl, workingRepoUrl, directoryExists,
              readmeResult, writeIdx, branchName, prUrl>>
sandboxVars == <<running, dirState, remotes, tree, headTree, mainTree, lastCommit>>
vars == <<pc, calls, now, callVars, result, ops, readmeWrites, sandboxVars>>

----------------------------------------------------------------------------
\* Strings

EmptyStr == <<>>
HTTPS == <<"h", "t", "t", "p", "s", ":", "/", "/">>
GH == <<"g", "i", "t", "h", "u", "b", ".", "c", "o", "m", "/">>
DotGit == <<".", "g", "i", "t">>

\* String.prototype.toLowerCase, on the letters the inputs use.
LowerChar(c) ==
    CASE c = "A" -> "a"
      [] c = "B" -> "b"
      [] c = "L" -> "l"
      [] c = "O" -> "o"
      [] c = "P" -> "p"
      [] c = "R" -> "r"
      [] OTHER -> c

ToLowerCase(s) == [i \in 1..Len(s) |-> LowerChar(s[i])]

IsSpace(c) == c \in {" ", "\n", "\t"}

\* String.prototype.trim
Trim(s) ==
    LET keep == {i \in 1..Len(s) : ~IsSpace(s[i])}
    IN  IF keep = {} THEN EmptyStr
        ELSE LET lo == CHOOSE i \in keep : \A j \in keep : i <= j
                 hi == CHOOSE i \in keep : \A j \in keep : j <= i
             IN  SubSeq(s, lo, hi)

EndsWith(s, suffix) ==
    /\ Len(s) >= Len(suffix)
    /\ SubSeq(s, Len(s) - Len(suffix) + 1, Len(s)) = suffix

\* s.replace(/\.git$/, "")
StripDotGit(s) ==
    IF EndsWith(s, DotGit) THEN SubSeq(s, 1, Len(s) - Len(DotGit)) ELSE s

HasSlash(s) == \E i \in 1..Len(s) : s[i] = "/"

\* The text after "github.com/" matches ([^\/]+)\/([^\/]+)(?:\.git)?(?:\/)?$ :
\* the first group ends at the first slash; the greedy second group takes every
\* character up to an optional final slash, ".git" included.
TailMatch(t) ==
    /\ HasSlash(t)
    /\ LET j == CHOOSE i \in 1..Len(t) : t[i] = "/" /\ \A k \in 1..(i - 1) : t[k] # "/"
           rest == SubSeq(t, j + 1, Len(t))
           body == IF Len(rest) > 0 /\ rest[Len(rest)] = "/"
                   THEN SubSeq(rest, 1, Len(rest) - 1) ELSE rest
       IN  /\ j > 1
           /\ Len(body) > 0
           /\ ~HasSlash(body)

MatchStarts(url) ==
    {i \in 1..Len(url) :
        /\ i + Len(GH) - 1 <= Len(url)
        /\ SubSeq(url, i, i + Len(GH) - 1) = GH
        /\ TailMatch(SubSeq(url, i + Len(GH), Len(url)))}

\* repoUrl.match(/github\.com\/([^\/]+)\/([^\/]+)(?:\.git)?(?:\/)?$/) is not null
RepoMatches(url) == MatchStarts(url) # {}

\* The two capture groups of the leftmost match.
RepoMatch(url) ==
    LET i == CHOOSE k \in MatchStarts(url) : \A m \in MatchStarts(url) : k <= m
        t == SubSeq(url, i + Len(GH), Len(url))
        j == CHOOSE k \in 1..Len(t) : t[k] = "/" /\ \A m \in 1..(k - 1) : t[m] # "/"
        rest == SubSeq(t, j + 1, Len(t))
        body == IF rest[Len(rest)] = "/" THEN SubSeq(rest, 1, Len(rest) - 1) ELSE rest
    IN  [owner |-> SubSeq(t, 1, j - 1), repoName |-> body]

ParsedOwner(url) == ToLowerCase(StripDotGit(RepoMatch(url).owner))
ParsedRepoName(url) == ToLowerCase(StripDotGit(RepoMatch(url).repoName))

----------------------------------------------------------------------------
\* Inputs

GitHubUrls ==
    { HTTPS \o GH \o <<"A", "l", "/", "R", "p">> \o DotGit,
      HTTPS \o GH \o <<"b", "o", "/", "r", "p", "/">> }

NonGitHubUrls ==
    { HTTPS \o <<"g", "i", "t", "l", "a", "b", ".", "c", "o", "m", "/", "a", "l", "/", "r", "p">>,
      HTTPS \o GH \o <<"a", "l">>,
      HTTPS \o GH \o <<"a", "l", "/", "r", "p", "/", "x">>,
      EmptyStr }

RepoUrls == GitHubUrls \cup NonGitHubUrls

\* A remote URL left in the sandbox by something other than this workflow.
OtherUrl == HTTPS \o GH \o <<"o", "/", "o">>

Some(v) == [defined |-> TRUE, val |-> v]
Undefined == [defined |-> FALSE, val |-> EmptyStr]

\* process.env.GITHUB_PERSONAL_ACCESS_TOKEN: unset, empty, or a token.
Tokens == { Undefined, Some(EmptyStr), Some(<<"t", "k">>) }

\* Falsy without the empty-string case.
FalsyUnsetOnly(t) == ~t.defined

\* !accessToken
Falsy(t) == ~t.defined \/ t.val = EmptyStr

\* Outputs of `gh api user --jq '.login'`.
UserOutputs == { <<"A", "l", "\n">>, <<" ", "b", "o", "\n">> }

README == "README.md"

FileChangeLists ==
    { <<>>,
      <<[path |-> "a.txt", content |-> <<"x">>]>>,
      <<[path |-> "b.txt", content |-> <<"y">>], [path |-> README, content |-> <<"z">>]>> }

\* Values a rejected await can throw: Error objects (message possibly empty)
\* and non-Error values.
Thrown ==
    { [isError |-> TRUE, message |-> "command failed"],
      [isError |-> TRUE, message |-> ""],
      [isError |-> FALSE, message |-> "rejected"] }

NoTree == [p \in {} |-> <<>>]
NoRemotes == [origin |-> EmptyStr, upstream |-> EmptyStr]

\* Outputs of `gh pr create`.
PrOutputs ==
    { HTTPS \o GH \o <<"a", "l", "/", "r", "p", "/", "p", "u", "l", "l", "/", "7", "\n">>,
      <<"o", "k", "\n">> }

SandboxId == "wmwx2g"

----------------------------------------------------------------------------
\* The sandbox file system and git, as far as the workflow observes them

WriteTree(t, path, content) ==
    [q \in DOMAIN t \cup {path} |-> IF q = path THEN content ELSE t[q]]

\* Files of tree t that HEAD's tree h does not hold with the same content:
\* what `git add .` stages and `git commit` records.
Diff(t, h) ==
    [p \in {q \in DOMAIN t : q \notin DOMAIN h \/ t[q] # h[q]} |-> t[p]]

\* `git checkout main` keeps uncommitted changes on top of the target tree.
Checkout(t, h, target) ==
    LET d == Diff(t, h)
    IN  [p \in DOMAIN target \cup DOMAIN d |-> IF p \in DOMAIN d THEN d[p] ELSE target[p]]

----------------------------------------------------------------------------
\* createGitHubPR

Op(site, ok, arg) == [site |-> site, ok |-> ok, arg |-> arg]

NoResult == [success |-> FALSE, error |-> Undefined, data |-> Undefined]

\* error instanceof Error ? error.message : "Unknown error occurred"
ErrorMessage(e) == IF e.isError THEN e.message ELSE "Unknown error occurred"

Failure(msg) == [success |-> FALSE, error |-> Some(msg), data |-> Undefined]

\* Throw with a finally-style shutdown in the error path.
ThrowThenShutdown(site, arg) ==
    \E e \in Thrown :
        /\ ops' = Append(Append(ops, Op(site, FALSE, arg)), Op("shutdown", TRUE, EmptyStr))
        /\ result' = Failure(ErrorMessage(e))
        /\ pc' = "done"
        /\ running' = FALSE
        /\ UNCHANGED <<calls, now, callVars, readmeWrites, dirState, remotes, tree,
                       headTree, mainTree, lastCommit>>

\* The top-level catch: the awaited operation `site` rejects with any value and
\* the function returns the failure result.  Nothing else changes.
Throw(site, arg) ==
    \E e \in Thrown :
        /\ ops' = Append(ops, Op(site, FALSE, arg))
        /\ result' = Failure(ErrorMessage(e))
        /\ pc' = "done"
        /\ UNCHANGED <<calls, now, callVars, readmeWrites, sandboxVars>>

\* The awaited operation `site` resolves and the workflow moves on to `next`.
Ok(site, arg, next) ==
    /\ ops' = Append(ops, Op(site, TRUE, arg))
    /\ pc' = next
    /\ UNCHANGED <<calls, now, result, readmeWrites>>

\* A rejection that a local catch swallows: the workflow moves on to `next`.
Caught(site, arg, next) ==
    /\ ops' = Append(ops, Op(site, FALSE, arg))
    /\ pc' = next
    /\ UNCHANGED <<calls, now, result, readmeWrites>>

\* ForkUrlOf built from the URL's own ".git" spelling.
ForkUrlDotGit(user, name) == HTTPS \o GH \o user \o <<"/">> \o name \o DotGit

\* `https://github.com/${authenticatedUsername}/${repoName}`
ForkUrlOf(user, name) == HTTPS \o GH \o user \o <<"/">> \o name

\* userInfoResult.trim().toLowerCase()
AuthUser(out) == ToLowerCase(Trim(out))

Init ==
    /\ pc = "idle"
    /\ calls = 0
    /\ now = 0
    /\ accessToken = Undefined
    /\ repoUrl = EmptyStr
    /\ fileChanges = <<>>
    /\ owner = EmptyStr
    /\ repoName = EmptyStr
    /\ userInfoResult = EmptyStr
    /\ authenticatedUsername = EmptyStr
    /\ forked = FALSE
    /\ forkUrl = EmptyStr
    /\ workingRepoUrl = EmptyStr
    /\ directoryExists = FALSE
    /\ readmeResult = <<>>
    /\ writeIdx = 1
    /\ branchName = 0
    /\ prUrl = EmptyStr
    /\ result = NoResult
    /\ ops = <<>>
    /\ readmeWrites = <<>>
    /\ running = FALSE
    /\ mainTree \in {NoTree, [p \in {README} |-> <<"# old">>]}
    /\ headTree = mainTree
    /\ lastCommit = NoTree
    /\ \/ /\ dirState \in {"absent", "empty", "plain"}
          /\ remotes = NoRemotes
          /\ tree = NoTree
       \/ /\ dirState = "git"
          /\ remotes \in [origin : {EmptyStr, OtherUrl}, upstream : {EmptyStr, OtherUrl}]
          /\ tree = mainTree

\* Lines 34-66: a call starts, reads the token and parses repoUrl.
Start ==
    /\ pc = "idle"
    /\ calls < MaxCalls
    /\ calls' = calls + 1
    /\ now' = now + 1
    /\ \E t \in Tokens, u \in RepoUrls, fc \in FileChangeLists :
        /\ accessToken' = t
        /\ repoUrl' = u
        /\ fileChanges' = fc
        /\ IF Falsy(t)
           THEN /\ result' = Failure("GITHUB_PERSONAL_ACCESS_TOKEN environment variable is required")
                /\ pc' = "done"
                /\ UNCHANGED <<owner, repoName>>
           ELSE IF ~RepoMatches(u)
           THEN /\ result' = Failure("Invalid GitHub repository URL format")
                /\ pc' = "done"
                /\ UNCHANGED <<owner, repoName>>
           ELSE /\ owner' = ParsedOwner(u)
                /\ repoName' = ParsedRepoName(u)
                /\ result' = NoResult
                /\ pc' = "resume"
    /\ UNCHANGED <<userInfoResult, authenticatedUsername, forked, forkUrl, workingRepoUrl,
                   directoryExists, readmeResult, writeIdx, branchName, prUrl, ops,
                   readmeWrites, sandboxVars>>

\* The result reaches the caller and the locals of the call are gone; the
\* sandbox stays as the call left it.
Return ==
    /\ pc = "done"
    /\ calls < MaxCalls
    /\ pc' = "idle"
    /\ accessToken' = Undefined
    /\ repoUrl' = EmptyStr
    /\ fileChanges' = <<>>
    /\ owner' = EmptyStr
    /\ repoName' = EmptyStr
    /\ userInfoResult' = EmptyStr
    /\ authenticatedUsername' = EmptyStr
    /\ forked' = FALSE
    /\ forkUrl' = EmptyStr
    /\ workingRepoUrl' = EmptyStr
    /\ directoryExists' = FALSE
    /\ readmeResult' = <<>>
    /\ writeIdx' = 1
    /\ branchName' = 0
    /\ prUrl' = EmptyStr
    /\ result' = NoResult
    /\ ops' = <<>>
    /\ readmeWrites' = <<>>
    /\ UNCHANGED <<calls, now, sandboxVars>>

\* Line 70: sdk.sandboxes.resume("wmwx2g")
Resume ==
    /\ pc = "resume"
    /\ \/ /\ Ok("resume", EmptyStr, "connect")
          /\ running' = TRUE
          /\ UNCHANGED <<callVars, dirState, remotes, tree, headTree, mainTree, lastCommit>>
       \/ Throw("resume", EmptyStr)

\* A command or session call whose effect the workflow never reads back.
Plain(here, next) ==
    /\ pc = here
    /\ \/ /\ Ok(here, EmptyStr, next)
          /\ UNCHANGED <<callVars, sandboxVars>>
       \/ Throw(here, EmptyStr)

\* Line 71: sandbox.connect()
Connect == Plain("connect", "auth_login")

\* Lines 74-76: gh auth login --with-token
AuthLogin == Plain("auth_login", "auth_setup_git")

\* Line 77: gh auth setup-git
AuthSetupGit == Plain("auth_setup_git", "config_name")

\* Line 78: git config --global user.name
ConfigName == Plain("config_name", "config_email")

\* Lines 79-81: git config --global user.email
ConfigEmail == Plain("config_email", "api_user")

\* Lines 84-120: gh api user --jq '.login', then the ownership decision.  The
\* try block of lines 98-102 holds only assignments and a console.log, so its
\* catch (the `gh repo view` probe of lines 105-118) is never entered.
ApiUser ==
    /\ pc = "api_user"
    /\ \/ \E out \in UserOutputs :
            LET user == AuthUser(out)
                isOwner == owner = user
            IN  /\ Ok("api_user", EmptyStr, "test_dir")
                /\ userInfoResult' = out
                /\ authenticatedUsername' = user
                /\ forked' = ~isOwner
                /\ forkUrl' = IF isOwner THEN EmptyStr ELSE ForkUrlOf(user, repoName)
                /\ workingRepoUrl' = IF isOwner THEN repoUrl ELSE ForkUrlOf(user, repoName)
                /\ UNCHANGED <<accessToken, repoUrl, fileChanges, owner, repoName,
                               directoryExists, readmeResult, writeIdx, branchName, prUrl,
                               sandboxVars>>
       \/ Throw("api_user", EmptyStr)

\* Outputs of the shell test of line 128.
ExistsOut == <<"e", "x", "i", "s", "t", "s", "\n">>
NotExistsOut == <<"n", "o", "t", "_", "e", "x", "i", "s", "t", "s", "\n">>

\* Lines 126-133: test -d ${repoDir} && echo "exists" || echo "not_exists"
TestDir ==
    /\ pc = "test_dir"
    /\ \/ LET testResult == IF dirState = "absent" THEN NotExistsOut ELSE ExistsOut
              exists == Trim(testResult) = <<"e", "x", "i", "s", "t", "s">>
          IN  /\ Ok("test_dir", EmptyStr, IF exists THEN "git_status" ELSE "clone")
              /\ directoryExists' = exists
       \/ /\ Caught("test_dir", EmptyStr, "clone")
          /\ directoryExists' = FALSE
    /\ UNCHANGED <<accessToken, repoUrl, fileChanges, owner, repoName, userInfoResult,
                   authenticatedUsername, forked, forkUrl, workingRepoUrl, readmeResult,
                   writeIdx, branchName, prUrl, sandboxVars>>

\* GitStatus without the `if (forked)` test of line 142.
GitStatusAlwaysRemotes ==
    /\ pc = "git_status"
    /\ \/ /\ dirState = "git"
          /\ Ok("git_status", EmptyStr, "seturl_origin")
       \/ Caught("git_status", EmptyStr, "rm_rf")
    /\ UNCHANGED <<callVars, sandboxVars>>

\* Lines 137-142: cd ${repoDir} && git status
GitStatus ==
    /\ pc = "git_status"
    /\ \/ /\ dirState = "git"
          /\ Ok("git_status", EmptyStr, IF forked THEN "seturl_origin" ELSE "checkout_main")
       \/ Caught("git_status", EmptyStr, "rm_rf")
    /\ UNCHANGED <<callVars, sandboxVars>>

\* A `git remote` command of the existing-directory branch: `add` succeeds only
\* when the remote is not configured, `set-url` only when it is.
RemoteStep(here, name, isAdd, url, next, onFail) ==
    /\ pc = here
    /\ \/ /\ (remotes[name] = EmptyStr) = isAdd
          /\ Ok(here, url, next)
          /\ remotes' = [remotes EXCEPT ![name] = url]
       \/ /\ Caught(here, url, onFail)
          /\ UNCHANGED remotes
    /\ UNCHANGED <<callVars, running, dirState, tree, headTree, mainTree, lastCommit>>

\* Lines 143-146: git remote set-url origin ${workingRepoUrl}
SetUrlOrigin ==
    RemoteStep("seturl_origin", "origin", FALSE, workingRepoUrl, "add_upstream", "add_origin")

\* Lines 147-151: git remote add origin ${workingRepoUrl}; a rejection reaches
\* the catch of line 163.
AddOrigin ==
    RemoteStep("add_origin", "origin", TRUE, workingRepoUrl, "add_upstream", "rm_rf")

\* AddUpstream whose catch swallows "already exists" without updating the URL.
AddUpstreamNoUpdate ==
    RemoteStep("add_upstream", "upstream", TRUE, repoUrl, "checkout_main", "checkout_main")

\* Lines 152-155: git remote add upstream ${repoUrl}
AddUpstream ==
    RemoteStep("add_upstream", "upstream", TRUE, repoUrl, "checkout_main", "seturl_upstream")

\* Lines 156-161: git remote set-url upstream ${repoUrl}; a rejection reaches
\* the catch of line 163.
SetUrlUpstream ==
    RemoteStep("seturl_upstream", "upstream", FALSE, repoUrl, "checkout_main", "rm_rf")

\* Lines 163-168: rm -rf ${repoDir}
RmRf ==
    /\ pc = "rm_rf"
    /\ \/ /\ Ok("rm_rf", EmptyStr, "clone")
          /\ directoryExists' = FALSE
          /\ dirState' = "absent"
          /\ remotes' = NoRemotes
          /\ tree' = NoTree
          /\ headTree' = NoTree
          /\ UNCHANGED <<accessToken, repoUrl, fileChanges, owner, repoName, userInfoResult,
                         authenticatedUsername, forked, forkUrl, workingRepoUrl, readmeResult,
                         writeIdx, branchName, prUrl, running, mainTree, lastCommit>>
       \/ Throw("rm_rf", EmptyStr)

\* Lines 171-173: git clone ${workingRepoUrl} ${repoDir}; git refuses a
\* destination that exists and is not empty.
Clone ==
    /\ pc = "clone"
    /\ \/ /\ dirState \in {"absent", "empty"}
          /\ Ok("clone", workingRepoUrl, IF forked THEN "add_upstream_clone" ELSE "checkout_main")
          /\ dirState' = "git"
          /\ remotes' = [origin |-> workingRepoUrl, upstream |-> EmptyStr]
          /\ tree' = mainTree
          /\ headTree' = mainTree
          /\ UNCHANGED <<callVars, running, mainTree, lastCommit>>
       \/ Throw("clone", workingRepoUrl)

\* Lines 174-179: git remote add upstream ${repoUrl}, after a fresh clone
AddUpstreamClone ==
    /\ pc = "add_upstream_clone"
    /\ \/ /\ remotes.upstream = EmptyStr
          /\ Ok("add_upstream_clone", repoUrl, "checkout_main")
          /\ remotes' = [remotes EXCEPT !.upstream = repoUrl]
          /\ UNCHANGED <<callVars, running, dirState, tree, headTree, mainTree, lastCommit>>
       \/ Throw("add_upstream_clone", repoUrl)

\* Line 183: git checkout main
CheckoutMain ==
    /\ pc = "checkout_main"
    /\ \/ /\ Ok("checkout_main", EmptyStr, IF forked THEN "fetch" ELSE "pull")
          /\ tree' = Checkout(tree, headTree, mainTree)
          /\ headTree' = mainTree
          /\ UNCHANGED <<callVars, running, dirState, remotes, mainTree, lastCommit>>
       \/ Throw("checkout_main", EmptyStr)

\* A step of the upstream sync (lines 187-193): its rejection is logged and
\* the workflow goes on to create the branch.
SyncStep(here, next) ==
    /\ pc = here
    /\ \/ Ok(here, EmptyStr, next)
       \/ Caught(here, EmptyStr, "checkout_b")
    /\ UNCHANGED <<callVars, sandboxVars>>

\* Line 188: git fetch upstream
Fetch == SyncStep("fetch", "merge")

\* Line 189: git merge upstream/main
Merge == SyncStep("merge", "push_main")

\* Line 190: git push origin main
PushMain == SyncStep("push_main", "checkout_b")

\* Pull with its rejection swallowed like the upstream sync's.
PullTolerated == SyncStep("pull", "checkout_b")

\* Line 195: git pull origin main
Pull == Plain("pull", "checkout_b")

\* Lines 199-203: git checkout -b code0-${Date.now()}
CheckoutB ==
    /\ pc = "checkout_b"
    /\ \/ /\ Ok("checkout_b", EmptyStr,
                IF Len(fileChanges) > 0 THEN "write_file" ELSE "read_readme")
          /\ branchName' = now
          /\ UNCHANGED <<accessToken, repoUrl, fileChanges, owner, repoName, userInfoResult,
                         authenticatedUsername, forked, forkUrl, workingRepoUrl,
                         directoryExists, readmeResult, writeIdx, prUrl, sandboxVars>>
       \/ /\ Throw("checkout_b", EmptyStr)

\* Lines 204-209: client.fs.writeTextFile for the next entry of fileChanges
WriteFile ==
    /\ pc = "write_file"
    /\ LET change == fileChanges[writeIdx]
       IN  \/ /\ Ok("write_file", EmptyStr,
                    IF writeIdx < Len(fileChanges) THEN "write_file" ELSE "git_add")
              /\ tree' = WriteTree(tree, change.path, change.content)
              /\ writeIdx' = writeIdx + 1
              /\ UNCHANGED <<accessToken, repoUrl, fileChanges, owner, repoName,
                             userInfoResult, authenticatedUsername, forked, forkUrl,
                             workingRepoUrl, directoryExists, readmeResult, branchName, prUrl,
                             running, dirState, remotes, headTree, mainTree, lastCommit>>
           \/ Throw("write_file", EmptyStr)

\* The section appended to an existing README (line 216).
UpdateSection == "\n\n## AI Agent Update\n\nThis update was made by an AI agent (code0)"

\* The section of a newly created README (line 220).
CreateSection == "\n\n## AI Agent Update\n\nThis repository was updated by an AI agent (code0)"

\* new Date().toISOString()
Timestamp == ToString(now)

\* Lines 212-215: client.fs.readTextFile(README.md); rejects when the file is
\* absent, and the catch of line 218 takes any rejection.
ReadReadme ==
    /\ pc = "read_readme"
    /\ \/ /\ README \in DOMAIN tree
          /\ Ok("read_readme", EmptyStr, "write_append")
          /\ readmeResult' = tree[README]
       \/ /\ Caught("read_readme", EmptyStr, "write_fresh")
          /\ UNCHANGED readmeResult
    /\ UNCHANGED <<accessToken, repoUrl, fileChanges, owner, repoName, userInfoResult,
                   authenticatedUsername, forked, forkUrl, workingRepoUrl, directoryExists,
                   writeIdx, branchName, prUrl, sandboxVars>>

\* A write of README.md by the default branch, as recorded in readmeWrites.
ReadmeWrite(content) ==
    [existed |-> README \in DOMAIN tree,
     prev |-> IF README \in DOMAIN tree THEN tree[README] ELSE <<>>,
     content |-> content]

\* Lines 216-217: writeTextFile(README.md, readmeUpdated); a rejection reaches
\* the catch of line 218.
WriteAppend ==
    /\ pc = "write_append"
    /\ LET readmeUpdated == readmeResult \o <<UpdateSection, Timestamp>>
       IN  \/ /\ ops' = Append(ops, Op("write_append", TRUE, EmptyStr))
              /\ pc' = "git_add"
              /\ tree' = WriteTree(tree, README, readmeUpdated)
              /\ readmeWrites' = Append(readmeWrites, ReadmeWrite(readmeUpdated))
           \/ /\ ops' = Append(ops, Op("write_append", FALSE, EmptyStr))
              /\ pc' = "write_fresh"
              /\ UNCHANGED <<tree, readmeWrites>>
    /\ UNCHANGED <<calls, now, callVars, result, running, dirState, remotes, headTree,
                   mainTree, lastCommit>>

\* Lines 218-222: writeTextFile(README.md, readmeContent)
WriteFresh ==
    /\ pc = "write_fresh"
    /\ LET readmeContent == <<"# ">> \o repoName \o <<CreateSection, Timestamp>>
       IN  \/ /\ ops' = Append(ops, Op("write_fresh", TRUE, EmptyStr))
              /\ pc' = "git_add"
              /\ tree' = WriteTree(tree, README, readmeContent)
              /\ readmeWrites' = Append(readmeWrites, ReadmeWrite(readmeContent))
              /\ UNCHANGED <<calls, now, callVars, result, running, dirState, remotes,
                             headTree, mainTree, lastCommit>>
           \/ Throw("write_fresh", EmptyStr)

\* Line 226: git add .
GitAdd == Plain("git_add", "api_email")

\* Lines 229-233: gh api user --jq '.email // ...'
ApiEmail == Plain("api_email", "commit")

\* Lines 236-239: git commit -m ...; records every change of the working tree
\* and fails when there is none.
Commit ==
    /\ pc = "commit"
    /\ \/ /\ DOMAIN Diff(tree, headTree) # {}
          /\ Ok("commit", EmptyStr, "push_branch")
          /\ lastCommit' = Diff(tree, headTree)
          /\ headTree' = tree
          /\ UNCHANGED <<callVars, running, dirState, remotes, tree, mainTree>>
       \/ Throw("commit", EmptyStr)

\* Lines 242-244: git push --set-upstream origin ${branchName}
PushBranch == Plain("push_branch", "pr_create")

\* prResult.match(/https:\/\/github\.com\/[^\s]+/): the leftmost match, or <<>>.
PrUrlMatch(out) ==
    LET pre == HTTPS \o GH
        starts == {i \in 1..Len(out) :
                      /\ i + Len(pre) <= Len(out)
                      /\ SubSeq(out, i, i + Len(pre) - 1) = pre
                      /\ ~IsSpace(out[i + Len(pre)])}
    IN  IF starts = {} THEN EmptyStr
        ELSE LET i == CHOOSE k \in starts : \A m \in starts : k <= m
                 stops == {k \in (i + Len(pre))..Len(out) : IsSpace(out[k])}
                 last == IF stops = {} THEN Len(out)
                         ELSE (CHOOSE k \in stops : \A m \in stops : k <= m) - 1
             IN  SubSeq(out, i, last)

\* Lines 266-270
PrUrlOf(out) ==
    IF PrUrlMatch(out) # EmptyStr THEN PrUrlMatch(out)
    ELSE HTTPS \o GH \o owner \o <<"/">> \o repoName \o <<"/", "p", "u", "l", "l", "s">>

\* Lines 253-270: gh pr create, with --head user:branch and --repo owner/repo
\* when forked.
PrCreate ==
    /\ pc = "pr_create"
    /\ LET site == IF forked THEN "pr_create_repo" ELSE "pr_create"
       IN  \/ \E out \in PrOutputs :
                /\ Ok(site, EmptyStr, "shutdown")
                /\ prUrl' = PrUrlOf(out)
                /\ UNCHANGED <<accessToken, repoUrl, fileChanges, owner, repoName,
                               userInfoResult, authenticatedUsername, forked, forkUrl,
                               workingRepoUrl, directoryExists, readmeResult, writeIdx,
                               branchName, sandboxVars>>
           \/ Throw(site, EmptyStr)

\* Lines 275-284
Success ==
    [success |-> TRUE,
     error |-> Undefined,
     data |-> Some([prUrl |-> prUrl, branchName |-> branchName, sandboxId |-> SandboxId,
                    forked |-> forked,
                    forkUrl |-> IF forked THEN Some(forkUrl) ELSE Undefined])]

\* Lines 272-284: sdk.sandboxes.shutdown(sandbox.id), then the success result
Shutdown ==
    /\ pc = "shutdown"
    /\ \/ /\ ops' = Append(ops, Op("shutdown", TRUE, EmptyStr))
          /\ running' = FALSE
          /\ result' = Success
          /\ pc' = "done"
          /\ UNCHANGED <<calls, now, callVars, readmeWrites, dirState, remotes, tree,
                         headTree, mainTree, lastCommit>>
       \/ Throw("shutdown", EmptyStr)

Next ==
    \/ Start
    \/ Return
    \/ Resume
    \/ Connect
    \/ AuthLogin
    \/ AuthSetupGit
    \/ ConfigName
    \/ ConfigEmail
    \/ ApiUser
    \/ TestDir
    \/ GitStatus
    \/ SetUrlOrigin
    \/ AddOrigin
    \/ AddUpstream
    \/ SetUrlUpstream
    \/ RmRf
    \/ Clone
    \/ AddUpstreamClone
    \/ CheckoutMain
    \/ Fetch
    \/ Merge
    \/ PushMain
    \/ Pull
    \/ CheckoutB
    \/ WriteFile
    \/ ReadReadme
    \/ WriteAppend
    \/ WriteFresh
    \/ GitAdd
    \/ ApiEmail
    \/ Commit
    \/ PushBranch
    \/ PrCreate
    \/ Shutdown

Spec == Init /\ [][Next]_vars

----------------------------------------------------------------------------
\* Properties

Issued(site) == \E i \in 1..Len(ops) : ops[i].site = site
Succeeded(site) == \E i \in 1..Len(ops) : ops[i].site = site /\ ops[i].ok
Returned == pc = "done"
ThrewAtTop == Returned /\ ops # <<>> /\ ~ops[Len(ops)].ok

\* C1: whenever an awaited step of the workflow throws up to the top-level
\* catch, the call returns a failure result whose error string is not empty.
C1_ThrowGivesNonEmptyError ==
    ThrewAtTop => (~result.success /\ result.error.defined /\ result.error.val # "")

\* C2: with the token unset or empty, or a repoUrl that is not of the GitHub
\* owner/repo shape, the call returns a failure result and issues no sandbox
\* operation.
C2_NoSandboxOperationOnBadInput ==
    (pc # "idle" /\ (~accessToken.defined \/ accessToken.val = EmptyStr
                        \/ repoUrl \in NonGitHubUrls))
        => (Returned /\ ~result.success /\ ops = <<>>)

C2_Witness ==
    /\ Returned
    /\ calls = 2
    /\ accessToken.defined /\ accessToken.val = EmptyStr
    /\ repoUrl \in GitHubUrls
    /\ ops = <<>>

UserKnown == Succeeded("api_user")

ForkSites ==
    {"repo_view", "seturl_origin", "add_origin", "add_upstream", "seturl_upstream",
     "add_upstream_clone", "fetch", "merge", "push_main", "pr_create_repo"}

\* C3: when the authenticated user is the parsed owner, no fork-related command
\* is issued, every clone is of the input repoUrl, and a success result has
\* forked = false and no forkUrl.
C3_OwnerRunIssuesNoForkCommand ==
    (UserKnown /\ authenticatedUsername = owner)
        => /\ \A i \in 1..Len(ops) :
                /\ ops[i].site \notin ForkSites
                /\ ops[i].site = "clone" => ops[i].arg = repoUrl
           /\ (Returned /\ result.success)
                => (~result.data.val.forked /\ ~result.data.val.forkUrl.defined)

C3_Witness ==
    /\ Returned /\ result.success
    /\ authenticatedUsername = owner
    /\ Succeeded("git_status")
    /\ calls = 1

\* The fork URL the claims speak of: https://github.com/<user>/<repo>.
ExpectedForkUrl == HTTPS \o GH \o authenticatedUsername \o <<"/">> \o repoName

\* C4: when the authenticated user is not the parsed owner, the repository
\* cloned or set as origin is https://github.com/<user>/<repo>, and a success
\* result has forked = true and forkUrl equal to that URL.
C4_NonOwnerRunWorksOnFork ==
    (UserKnown /\ authenticatedUsername # owner)
        => /\ workingRepoUrl = ExpectedForkUrl
           /\ \A i \in 1..Len(ops) :
                ops[i].site \in {"clone", "seturl_origin", "add_origin"}
                    => ops[i].arg = ExpectedForkUrl
           /\ (Returned /\ result.success)
                => /\ result.data.val.forked
                   /\ result.data.val.forkUrl = Some(ExpectedForkUrl)

C4_Witness ==
    /\ Returned /\ result.success
    /\ authenticatedUsername # owner
    /\ Succeeded("clone")

\* C5: a run whose authenticated user is not the owner probes the fork with
\* `gh repo view <user>/<repo>` before it goes on to the clone step.
C5_NonOwnerRunProbesFork ==
    (UserKnown /\ authenticatedUsername # owner) => Issued("repo_view")

\* The files a fileChanges list names, each with the last content listed for it.
ListedFiles(fc) ==
    [p \in {fc[i].path : i \in 1..Len(fc)} |->
        fc[CHOOSE i \in 1..Len(fc) :
              fc[i].path = p /\ \A j \in 1..Len(fc) : fc[j].path = p => j <= i].content]

\* C6: with a non-empty fileChanges list, the commit of the run holds exactly
\* the listed files with the listed contents.
C6_CommitHoldsExactlyListedFiles ==
    (Len(fileChanges) > 0 /\ Succeeded("commit")) => lastCommit = ListedFiles(fileChanges)

\* C7: with no file edits, every write of an existing README.md is the previous
\* content followed by the "AI Agent Update" section.
C7_ExistingReadmeOnlyAppended ==
    \A i \in 1..Len(readmeWrites) :
        LET w == readmeWrites[i]
        IN  w.existed
              => /\ Len(w.content) = Len(w.prev) + 2
                 /\ SubSeq(w.content, 1, Len(w.prev)) = w.prev
                 /\ w.content[Len(w.prev) + 1] = UpdateSection

\* C8: shutdown is invoked exactly in the runs whose PR creation succeeded: a
\* success result comes after a shutdown that did not throw, and a run that
\* resumed the sandbox and failed at another step never invokes shutdown and
\* leaves the sandbox running.
C8_ShutdownOnlyOnSuccessPath ==
    /\ Issued("shutdown") => (Succeeded("pr_create") \/ Succeeded("pr_create_repo"))
    /\ (Succeeded("pr_create") \/ Succeeded("pr_create_repo"))
          => (pc = "shutdown" \/ Issued("shutdown"))
    /\ (Returned /\ result.success)
          => (ops[Len(ops)] = Op("shutdown", TRUE, EmptyStr) /\ ~running)
    /\ (ThrewAtTop /\ Succeeded("resume") /\ ops[Len(ops)].site # "shutdown")
          => (~Issued("shutdown") /\ running)

C8_Witness ==
    /\ ThrewAtTop
    /\ Succeeded("commit")
    /\ ~Issued("shutdown")
    /\ running

\* The failures the claim names as tolerated.
ClaimedTolerated == {"fetch", "merge", "push_main", "add_upstream"}

\* The failures the code catches locally.
CodeTolerated ==
    ClaimedTolerated \cup
        {"test_dir", "git_status", "seturl_origin", "add_origin", "seturl_upstream",
         "read_readme", "write_append"}

AbortsExactlyOutside(tolerated) ==
    \A i \in 1..Len(ops) :
        ~ops[i].ok
          => IF ops[i].site \in tolerated
             THEN i = Len(ops) => ~Returned
             ELSE i = Len(ops) /\ Returned /\ ~result.success

\* C9 as claimed: only the upstream sync and the remote add of upstream are
\* tolerated; any other failing operation is the last one of the run, which
\* returns a failure.
C9_OnlySyncAndRemoteAddTolerated == AbortsExactlyOutside(ClaimedTolerated)

\* C9 as amended: the tolerated failures are the existence test, git status,
\* the four remote commands of the existing-directory branch, the upstream sync,
\* the README read and the README append; any other failing operation is the
\* last one of the run, which returns a failure.
C9_LocallyCaughtFailuresTolerated == AbortsExactlyOutside(CodeTolerated)

C9_Witness ==
    /\ ThrewAtTop
    /\ ops[Len(ops)].site = "clone"
    /\ \E i \in 1..Len(ops) : ops[i].site = "test_dir" /\ ~ops[i].ok

\* C10: in a forked run that reaches `git checkout main`, the directory is a
\* git working tree whose origin is the fork and whose upstream is repoUrl.
C10_ForkRemotesAtCheckout ==
    (forked /\ pc = "checkout_main")
        => /\ dirState = "git"
           /\ remotes.origin = ExpectedForkUrl
           /\ remotes.upstream = repoUrl

C10_Witness ==
    /\ forked /\ pc = "checkout_main"
    /\ calls = 1
    /\ Succeeded("add_origin")
    /\ Succeeded("seturl_upstream")

====
